---------------------------- MODULE Spec2Model ----------------------------
(***************************************************************************)
(* Gotham request-processing core: the Middleware contract and its doc     *)
(* examples (src/middleware/mod.rs), HandlerError and its conversion into  *)
(* a Response (src/handler/error.rs), together with the parts the two      *)
(* files rely on: the State container, the pipeline that composes the      *)
(* middleware of one request, and the boundary that turns the outcome of   *)
(* the chain into the one response of the request.                         *)
(***************************************************************************)
EXTENDS Integers, Sequences, FiniteSets, TLC

(***************************************************************************)
(* Bounds of the model.                                                    *)
(***************************************************************************)
\* longest list of middleware factories in a pipeline
MaxChain == 3
\* number of requests the transport may deliver
NReq == 2
\* longest sequence of State::put calls explored on one container
MaxPuts == 3
\* longest sequence of with_status calls explored on one HandlerError
MaxOverrides == 2

\* longest list of factories explored with two requests in flight together
ConcChain == 2
\* longest list of factories explored with post steps
PostChain == 3

Requests == 1..NReq

(***************************************************************************)
(* hyper::StatusCode.  A status is its u16 value; the registry gives the   *)
(* canonical reason of the registered ones and nothing for the others.     *)
(***************************************************************************)
StatusOk == 200
StatusNotFound == 404
StatusMethodNotAllowed == 405
StatusImATeapot == 418
StatusInternalServerError == 500
StatusUnregistered == 599

StatusCodes ==
    {StatusOk, StatusNotFound, StatusMethodNotAllowed, StatusImATeapot,
     StatusInternalServerError, StatusUnregistered}

None == [some |-> FALSE]
Some(v) == [some |-> TRUE, v |-> v]

\* StatusCode::canonical_reason(): Option<&'static str>
CanonicalReason(s) ==
    CASE s = StatusOk -> Some("OK")
      [] s = StatusNotFound -> Some("Not Found")
      [] s = StatusMethodNotAllowed -> Some("Method Not Allowed")
      [] s = StatusImATeapot -> Some("I'm a teapot")
      [] s = StatusInternalServerError -> Some("Internal Server Error")
      [] OTHER -> None

\* Option::unwrap_or
UnwrapOr(o, d) == IF o.some THEN o.v ELSE d

(***************************************************************************)
(* State: one slot per type; put replaces, try_borrow reads.               *)
(***************************************************************************)
TRequestId == "RequestId"
TMethod == "Method"
TMiddlewareStateData == "MiddlewareStateData"
Types == {TRequestId, TMethod, TMiddlewareStateData}

\* State::new()
NewState == [t \in Types |-> None]

\* a put that keeps the value already there
PutKeepsFirst(state, t, v) ==
    IF state[t].some THEN state ELSE [state EXCEPT ![t] = Some(v)]

\* State::put(t): the value of type t is replaced, the others are kept
Put(state, t, v) == [state EXCEPT ![t] = Some(v)]

\* State::try_borrow::<t>(): Option<&t>
TryBorrow(state, t) == state[t]

\* FromState::borrow_from(&state) of a type the transport always sets
BorrowFrom(state, t) == state[t].v

\* state::request_id(&state)
request_id(state) == BorrowFrom(state, TRequestId)

\* the value the next put of type t would be compared with: the last
\* insert of type t in a sequence of <<type, value>> inserts
RECURSIVE LastInserted(_, _)
LastInserted(ps, t) ==
    IF ps = <<>> THEN None
    ELSE IF ps[Len(ps)][1] = t THEN Some(ps[Len(ps)][2])
    ELSE LastInserted(SubSeq(ps, 1, Len(ps) - 1), t)

(***************************************************************************)
(* http::response::create_response(state, status, body)                    *)
(***************************************************************************)
EmptyBody == ""
CreateResponse(state, status, body) ==
    [status |-> status, body |-> UnwrapOr(body, EmptyBody)]

(***************************************************************************)
(* HandlerError                                                            *)
(***************************************************************************)
Causes == {"disk full", "config.toml not found"}
AsyncFailure == "async action failed"
ConstructionFailure == "new_middleware failed"
AllCauses == Causes \cup {AsyncFailure, ConstructionFailure}

\* into_handler_error that forgets what it wraps
IntoHandlerErrorLosesCause(cause) ==
    [status_code |-> StatusInternalServerError, cause |-> "unknown"]

\* into_handler_error with another default status
IntoHandlerErrorNotFound(cause) ==
    [status_code |-> StatusNotFound, cause |-> cause]

\* impl<E: Error> IntoHandlerError for E
IntoHandlerError(cause) ==
    [status_code |-> StatusInternalServerError, cause |-> cause]

\* with_status that builds the error anew
WithStatusDropsCause(e, status_code) ==
    [status_code |-> status_code, cause |-> "unknown"]

\* with_status that sets the status only while it is the default
WithStatusFirstWins(e, status_code) ==
    IF e.status_code = StatusInternalServerError
    THEN [status_code |-> status_code, cause |-> e.cause]
    ELSE e

\* HandlerError::with_status
WithStatus(e, status_code) ==
    [status_code |-> status_code, cause |-> e.cause]

\* a trace line without the fallback text
TraceLineNoFallback(e, state) ==
    [request_id |-> request_id(state),
     status |-> e.status_code,
     reason |-> UnwrapOr(CanonicalReason(e.status_code), "")]

\* the line trace! writes in into_response
TraceLine(e, state) ==
    [request_id |-> request_id(state),
     status |-> e.status_code,
     reason |-> UnwrapOr(CanonicalReason(e.status_code), "(unregistered)")]

\* into_response that ignores the status of the error
IntoResponseAlways500(e, state) ==
    CreateResponse(state, StatusInternalServerError, None)

\* into_response that sends the cause as the body
IntoResponseLeaksCause(e, state) ==
    CreateResponse(state, e.status_code, Some(e.cause))

\* impl IntoResponse for HandlerError: the response
IntoResponse(e, state) == CreateResponse(state, e.status_code, None)

\* Debug::fmt of the wrapped cause (Box<Error>)
DebugOfCause(c) == "Error(" \o c \o ")"

\* a Display that names the cause
DisplayFmtNamesCause(e) == "handler failed to process request: " \o e.cause

\* impl Display for HandlerError
DisplayFmt(e) == "handler failed to process request"

\* impl Debug for HandlerError: Display, then the cause in parentheses
DebugFmt(e) == DisplayFmt(e) \o " (" \o DebugOfCause(e.cause) \o ")"

\* Error::description
description(e) == "handler failed to process request"

\* Error::cause
ErrorCause(e) == Some(e.cause)

(***************************************************************************)
(* HandlerFuture outcomes.  The State travels with the outcome; the model  *)
(* keeps it in st[r].                                                       *)
(***************************************************************************)
NoResult == [kind |-> "none"]
\* future::ok((state, response))
OkResult(response) == [kind |-> "ok", response |-> response]
\* future::err((state, handler_error))
ErrResult(e) == [kind |-> "err", error |-> e]

(***************************************************************************)
(* Middleware::call of the four middleware of the documentation.  A call   *)
(* gives what the middleware does with its continuation ("chain": it       *)
(* invokes chain(state); "return": it returns without invoking it;         *)
(* "suspend": it returns a future that is not resolved yet), the state it  *)
(* passes on, the inserts it made into it, and the outcome it produced     *)
(* itself.                                                                 *)
(***************************************************************************)
Kinds == {"Noop", "StateData", "Conditional", "Async"}
Methods == {"Get", "Post"}
StateDataValue == 10

\* the state is moved into chain(state), into the outcome or into the pending
\* future: the middleware keeps no State of its own (kept)
Effect(next, state, inserts, result) ==
    [next |-> next, state |-> state, inserts |-> inserts, result |-> result,
     kept |-> FALSE]

\* a Noop that answers the request itself
NoopCallAnswers(state) ==
    Effect("return", state, <<>>, OkResult(CreateResponse(state, StatusOk, None)))

\* a Noop that keeps a State of its own after chain(state)
NoopCallKeepsState(state) ==
    [Effect("chain", state, <<>>, NoResult) EXCEPT !.kept = TRUE]

\* NoopMiddleware: chain(state)
NoopCall(state) == Effect("chain", state, <<>>, NoResult)

\* a StateData that passes a State of its own making to the chain
StateDataCallNewState(state) ==
    Effect("chain", Put(NewState, TMiddlewareStateData, StateDataValue),
           << <<TMiddlewareStateData, StateDataValue>> >>, NoResult)

\* a StateData that puts its data in place of the request id
StateDataCallReplacesRequestId(state) ==
    Effect("chain", Put(state, TRequestId, <<"request", 0>>),
           << <<TRequestId, <<"request", 0>> >> >>, NoResult)

\* MiddlewareWithStateData: state.put(MiddlewareStateData { i: 10 }); chain(state)
StateDataCall(state) ==
    Effect("chain", Put(state, TMiddlewareStateData, StateDataValue),
           << <<TMiddlewareStateData, StateDataValue>> >>, NoResult)

\* a Conditional that makes its 405 response and still invokes the chain
ConditionalCallAlsoChains(state) ==
    IF BorrowFrom(state, TMethod) = "Get"
    THEN Effect("chain", state, <<>>, NoResult)
    ELSE Effect("chain", state, <<>>,
                OkResult(CreateResponse(state, StatusMethodNotAllowed, None)))

\* ConditionalMiddleware: chain(state) for a Get, a 405 response otherwise
ConditionalCall(state) ==
    IF BorrowFrom(state, TMethod) = "Get"
    THEN Effect("chain", state, <<>>, NoResult)
    ELSE Effect("return", state, <<>>,
                OkResult(CreateResponse(state, StatusMethodNotAllowed, None)))

\* an Async that invokes the chain without waiting for its action
AsyncCallChainsAtOnce(state) == Effect("chain", state, <<>>, NoResult)

\* AsyncMiddleware: Box::new(f.and_then(move |_| chain(state))), f not run yet
AsyncCall(state) == Effect("suspend", state, <<>>, NoResult)

\* an and_then whose future is never ready
AsyncResumeNeverReady(state, ok) == Effect("suspend", state, <<>>, NoResult)

\* an and_then that runs its closure also when the action failed
AsyncResumeChainsAfterFailure(state, ok) ==
    Effect("chain", state, <<>>,
           IF ok THEN NoResult ELSE ErrResult(IntoHandlerError(AsyncFailure)))

\* f.and_then(..) once f has resolved: the closure runs only for Ok(()), a
\* failure of f is the outcome, as a HandlerError
AsyncResume(state, ok) ==
    IF ok
    THEN Effect("chain", state, <<>>, NoResult)
    ELSE Effect("return", state, <<>>, ErrResult(IntoHandlerError(AsyncFailure)))

\* a middleware that composes a step of its own around chain(state): it
\* delegates, and its post step runs when the continuation's outcome is back
WrappingCall(state) == Effect("chain", state, <<>>, NoResult)

\* the documented middleware and the wrapping one
AllKinds == Kinds \cup {"Wrapping"}

\* the post steps that run when instance m gets its continuation's outcome
PostSteps(m) == IF m.kind = "Wrapping" THEN <<m.idx>> ELSE <<>>

\* Middleware::call, dispatched on the instance
MiddlewareCall(kind, state) ==
    CASE kind = "Noop" -> NoopCall(state)
      [] kind = "StateData" -> StateDataCall(state)
      [] kind = "Conditional" -> ConditionalCall(state)
      [] kind = "Async" -> AsyncCall(state)
      [] kind = "Wrapping" -> WrappingCall(state)

\* my_handler: the outcome of File::open decides; an error is converted with
\* into_handler_error() and, when the handler chooses one, with_status(s)
HandlerOutcomes ==
    {[ok |-> TRUE]} \cup
    {[ok |-> FALSE, cause |-> c, status |-> s] :
        c \in Causes, s \in {None} \cup {Some(x) : x \in StatusCodes}}

OkBody == "hello"
MyHandler(state, o) ==
    IF o.ok
    THEN OkResult(CreateResponse(state, StatusOk, Some(OkBody)))
    ELSE IF o.status.some
         THEN ErrResult(WithStatus(IntoHandlerError(o.cause), o.status.v))
         ELSE ErrResult(IntoHandlerError(o.cause))

(***************************************************************************)
(* NewMiddleware::new_middleware(&self) -> io::Result<Instance>            *)
(***************************************************************************)
\* a factory that hands every request the one instance it made first
NewMiddlewareShared(factories_, i, ok, fresh) ==
    IF ok THEN Some([idx |-> i, kind |-> factories_[i], id |-> <<0, i>>]) ELSE None

\* a factory list that hands out one instance for all its positions
NewMiddlewareSameInstance(factories_, i, ok, fresh) ==
    IF ok THEN Some([idx |-> i, kind |-> factories_[i], id |-> <<fresh[1], 0>>])
    ELSE None

\* each successful call returns a new value of type Instance, owned by the
\* caller (fresh: the identity of the value made by this call)
NewMiddleware(factories_, i, ok, fresh) ==
    IF ok THEN Some([idx |-> i, kind |-> factories_[i], id |-> fresh]) ELSE None

(***************************************************************************)
(* The pipeline: the continuation of a request is the sequence of the      *)
(* instances still to be called, the terminal handler after the last.      *)
(* It is folded from the last factory to the first, each instance          *)
(* wrapping the continuation built so far.                                 *)
(***************************************************************************)
Wrap(instance, continuation) == <<instance>> \o continuation

\* the boundary: the one response of the request, and the trace lines
BoundaryResponse(result, state) ==
    IF result.kind = "ok" THEN result.response
    ELSE IntoResponse(result.error, state)

\* trace lines written while into_response runs
IntoResponseTrace(e, state) == << TraceLine(e, state) >>

BoundaryTrace(result, state) ==
    IF result.kind = "ok" THEN <<>> ELSE IntoResponseTrace(result.error, state)

\* request_id::set_request_id: the id the transport gives request r
RequestIdOf(r) == <<"request", r>>

\* the State the transport hands to process()
InitialState(r, m) == Put(Put(NewState, TRequestId, RequestIdOf(r)), TMethod, m)

(***************************************************************************)
(* State of the system.                                                    *)
(***************************************************************************)
VARIABLES
    factories,   \* the pipeline's list of factories (their kinds), shared
    live,        \* the requests the transport delivers in this run
    pc,          \* per request: idle, build, run, suspended, unwind, boundary, done
    st,          \* per request: its State
    puts,        \* per request: the inserts made into its State, in order
    bi,          \* per request: the factory new_middleware is called on next
    chain,       \* per request: the continuation, the instances still to call
    stack,       \* per request: the instances waiting for their continuation's outcome
    executed,    \* per request: the links whose code started, in order
    terminator,  \* per request: the first link that produced an outcome (0: none)
    raised,      \* per request: the outcome as produced where processing ended
    result,      \* per request: the outcome on its way back to the boundary
    responses,   \* per request: the responses handed to the transport
    trace,       \* per request: the trace lines written for it
    holders,     \* per request: the places that hold its State (0: the caller of process)
    resolved,    \* per request: the set of <<link, ok>> of the actions that resolved
    posts,       \* per request: the links whose post step ran, in order
    made,        \* per request: the instances new_middleware returned, in order
    used,        \* per request: the identities of the instances called, in order
    herr,        \* a HandlerError value under construction (Option)
    hcause,      \* the cause it was created from
    hstatuses,   \* the statuses given to with_status, in order
    hstate,      \* the State it is converted against
    hresp,       \* the response into_response gave (Option)
    htrace       \* the trace lines into_response wrote

logVars == <<holders, resolved, posts, made, used>>
reqVars ==
    <<pc, st, puts, bi, chain, stack, executed, terminator, raised, result,
      responses, trace, logVars>>
errVars == <<herr, hcause, hstatuses, hstate, hresp, htrace>>
vars == <<factories, live, reqVars, errVars>>

\* the terminal handler's place in the chain: after the last middleware
HandlerIdx == Len(factories) + 1

\* the link a continuation runs first
NextLink(ch) == IF ch = <<>> THEN HandlerIdx ELSE Head(ch).idx

\* the link a link returns to: the one that invoked it
Caller(stk) == IF stk = <<>> THEN 0 ELSE stk[Len(stk)].idx

FactoryLists == UNION {[1..n -> Kinds] : n \in 0..MaxChain}

ReqInit ==
    /\ pc = [r \in Requests |-> "idle"]
    /\ st = [r \in Requests |-> NewState]
    /\ puts = [r \in Requests |-> <<>>]
    /\ bi = [r \in Requests |-> 0]
    /\ chain = [r \in Requests |-> <<>>]
    /\ stack = [r \in Requests |-> <<>>]
    /\ executed = [r \in Requests |-> <<>>]
    /\ terminator = [r \in Requests |-> 0]
    /\ raised = [r \in Requests |-> NoResult]
    /\ result = [r \in Requests |-> NoResult]
    /\ responses = [r \in Requests |-> <<>>]
    /\ trace = [r \in Requests |-> <<>>]
    /\ holders = [r \in Requests |-> {}]
    /\ resolved = [r \in Requests |-> {}]
    /\ posts = [r \in Requests |-> <<>>]
    /\ made = [r \in Requests |-> <<>>]
    /\ used = [r \in Requests |-> <<>>]

ErrInit ==
    /\ herr = None
    /\ hcause = None
    /\ hstatuses = <<>>
    /\ hstate = NewState
    /\ hresp = None
    /\ htrace = <<>>

\* one request at a time through a pipeline of any factories
Init ==
    /\ factories \in FactoryLists
    /\ live \in {{r} : r \in Requests}
    /\ ReqInit
    /\ ErrInit

(***************************************************************************)
(* One request through the chain.                                          *)
(***************************************************************************)
\* the transport hands the request to process(state)
Start(r) ==
    /\ r \in live
    /\ pc[r] = "idle"
    /\ \E m \in Methods :
        /\ st' = [st EXCEPT ![r] = InitialState(r, m)]
        /\ puts' = [puts EXCEPT ![r] =
                      << <<TRequestId, RequestIdOf(r)>>, <<TMethod, m>> >>]
    /\ bi' = [bi EXCEPT ![r] = Len(factories)]
    /\ pc' = [pc EXCEPT ![r] = IF Len(factories) = 0 THEN "run" ELSE "build"]
    /\ holders' = [holders EXCEPT ![r] =
                     IF Len(factories) = 0 THEN {HandlerIdx} ELSE {0}]
    /\ UNCHANGED <<factories, live, chain, stack, executed, terminator, raised,
                   result, responses, trace, resolved, posts, made, used, errVars>>

\* chain assembly: new_middleware on the next factory, last to first; a
\* failure is the request's outcome and nothing is called
Build(r) ==
    /\ pc[r] = "build"
    /\ \E ok \in BOOLEAN :
        LET m == NewMiddleware(factories, bi[r], ok, <<r, Len(made[r]) + 1>>) IN
        IF m.some
        THEN /\ chain' = [chain EXCEPT ![r] = Wrap(m.v, chain[r])]
             /\ made' = [made EXCEPT ![r] = Append(made[r], m.v)]
             /\ bi' = [bi EXCEPT ![r] = bi[r] - 1]
             /\ pc' = [pc EXCEPT ![r] = IF bi[r] = 1 THEN "run" ELSE "build"]
             /\ holders' = [holders EXCEPT ![r] =
                              IF bi[r] = 1 THEN {m.v.idx} ELSE holders[r]]
             /\ UNCHANGED <<raised, result>>
        ELSE /\ chain' = [chain EXCEPT ![r] = <<>>]
             /\ result' = [result EXCEPT ![r] =
                             ErrResult(IntoHandlerError(ConstructionFailure))]
             /\ raised' = [raised EXCEPT ![r] =
                             ErrResult(IntoHandlerError(ConstructionFailure))]
             /\ pc' = [pc EXCEPT ![r] = "boundary"]
             /\ UNCHANGED <<bi, made, holders>>
    /\ UNCHANGED <<factories, live, st, puts, stack, executed, terminator,
                   responses, trace, resolved, posts, used, errVars>>

\* what the call (or the resumption) of instance m did
Apply(r, m, eff) ==
    /\ st' = [st EXCEPT ![r] = eff.state]
    /\ puts' = [puts EXCEPT ![r] = puts[r] \o eff.inserts]
    /\ IF eff.result = NoResult
       THEN UNCHANGED <<result, raised, terminator>>
       ELSE /\ result' = [result EXCEPT ![r] = eff.result]
            /\ raised' = [raised EXCEPT ![r] =
                            IF terminator[r] = 0 THEN eff.result ELSE raised[r]]
            /\ terminator' = [terminator EXCEPT ![r] =
                                IF terminator[r] = 0 THEN m.idx ELSE terminator[r]]
    /\ CASE eff.next = "chain" ->
              /\ chain' = [chain EXCEPT ![r] = Tail(chain[r])]
              /\ stack' = [stack EXCEPT ![r] = Append(stack[r], m)]
              /\ pc' = [pc EXCEPT ![r] = "run"]
              /\ holders' = [holders EXCEPT ![r] =
                               (IF eff.kept THEN {m.idx} ELSE {})
                                  \cup {NextLink(Tail(chain[r]))}]
         [] eff.next = "suspend" ->
              /\ pc' = [pc EXCEPT ![r] = "suspended"]
              /\ holders' = [holders EXCEPT ![r] = {m.idx}]
              /\ UNCHANGED <<chain, stack>>
         [] OTHER ->
              /\ chain' = [chain EXCEPT ![r] = <<>>]
              /\ pc' = [pc EXCEPT ![r] = IF stack[r] = <<>> THEN "boundary" ELSE "unwind"]
              /\ holders' = [holders EXCEPT ![r] =
                               (IF eff.kept THEN {m.idx} ELSE {})
                                  \cup {Caller(stack[r])}]
              /\ UNCHANGED stack

\* the continuation is invoked: the next middleware's call runs
CallLink(r) ==
    /\ pc[r] = "run"
    /\ chain[r] # <<>>
    /\ LET m == Head(chain[r]) IN
        /\ executed' = [executed EXCEPT ![r] = Append(executed[r], m.idx)]
        /\ used' = [used EXCEPT ![r] = Append(used[r], m.id)]
        /\ Apply(r, m, MiddlewareCall(m.kind, st[r]))
    /\ UNCHANGED <<factories, live, bi, responses, trace, resolved, posts, made,
                   errVars>>

\* the asynchronous action of a suspended middleware resolves
Resolve(r) ==
    /\ pc[r] = "suspended"
    /\ \E ok \in BOOLEAN :
        /\ resolved' = [resolved EXCEPT ![r] =
                          resolved[r] \cup {<<Head(chain[r]).idx, ok>>}]
        /\ Apply(r, Head(chain[r]), AsyncResume(st[r], ok))
    /\ UNCHANGED <<factories, live, bi, executed, responses, trace, posts, made,
                   used, errVars>>

\* the innermost continuation is invoked: the terminal handler runs
CallHandler(r) ==
    /\ pc[r] = "run"
    /\ chain[r] = <<>>
    /\ executed' = [executed EXCEPT ![r] = Append(executed[r], HandlerIdx)]
    /\ \E o \in HandlerOutcomes :
        /\ result' = [result EXCEPT ![r] = MyHandler(st[r], o)]
        /\ raised' = [raised EXCEPT ![r] =
                        IF terminator[r] = 0 THEN MyHandler(st[r], o) ELSE raised[r]]
    /\ terminator' = [terminator EXCEPT ![r] =
                        IF terminator[r] = 0 THEN HandlerIdx ELSE terminator[r]]
    /\ pc' = [pc EXCEPT ![r] = IF stack[r] = <<>> THEN "boundary" ELSE "unwind"]
    /\ holders' = [holders EXCEPT ![r] = {Caller(stack[r])}]
    /\ UNCHANGED <<factories, live, st, puts, bi, chain, stack, responses,
                   trace, resolved, posts, made, used, errVars>>

\* a middleware that called chain(state) returns what the continuation returned
ChainReturn(m, outcome) == outcome

\* an unwinding that resumes the outermost waiting middleware first
UnwindOutermostFirst(r) ==
    /\ pc[r] = "unwind"
    /\ LET m == Head(stack[r]) IN
        /\ result' = [result EXCEPT ![r] = ChainReturn(m, result[r])]
        /\ posts' = [posts EXCEPT ![r] = posts[r] \o PostSteps(m)]
    /\ stack' = [stack EXCEPT ![r] = Tail(stack[r])]
    /\ pc' = [pc EXCEPT ![r] = IF Len(stack[r]) = 1 THEN "boundary" ELSE "unwind"]
    /\ holders' = [holders EXCEPT ![r] = {Caller(Tail(stack[r]))}]
    /\ UNCHANGED <<factories, live, st, puts, bi, chain, executed, terminator,
                   raised, responses, trace, resolved, made, used, errVars>>

\* the innermost waiting middleware gets its continuation's outcome, runs its
\* post step if it has one, and returns the outcome to its own caller
Unwind(r) ==
    /\ pc[r] = "unwind"
    /\ LET m == stack[r][Len(stack[r])] IN
        /\ result' = [result EXCEPT ![r] = ChainReturn(m, result[r])]
        /\ posts' = [posts EXCEPT ![r] = posts[r] \o PostSteps(m)]
    /\ stack' = [stack EXCEPT ![r] = SubSeq(stack[r], 1, Len(stack[r]) - 1)]
    /\ pc' = [pc EXCEPT ![r] = IF Len(stack[r]) = 1 THEN "boundary" ELSE "unwind"]
    /\ holders' = [holders EXCEPT ![r] =
                     {Caller(SubSeq(stack[r], 1, Len(stack[r]) - 1))}]
    /\ UNCHANGED <<factories, live, st, puts, bi, chain, executed, terminator,
                   raised, responses, trace, resolved, made, used, errVars>>

\* the outcome reaches the caller of process(): it becomes the response
Boundary(r) ==
    /\ pc[r] = "boundary"
    /\ responses' = [responses EXCEPT ![r] =
                       Append(responses[r], BoundaryResponse(result[r], st[r]))]
    /\ trace' = [trace EXCEPT ![r] = trace[r] \o BoundaryTrace(result[r], st[r])]
    /\ pc' = [pc EXCEPT ![r] = "done"]
    /\ UNCHANGED <<factories, live, st, puts, bi, chain, stack, executed,
                   terminator, raised, result, logVars, errVars>>

Step(r) ==
    \/ Start(r)
    \/ Build(r)
    \/ CallLink(r)
    \/ Resolve(r)
    \/ CallHandler(r)
    \/ Unwind(r)
    \/ Boundary(r)

Next == \E r \in Requests : Step(r)

Spec == Init /\ [][Next]_vars

\* every request the runtime holds is polled again: tokio's event loop runs
\* each ready future
FairSpec == Spec /\ \A r \in Requests : WF_vars(Step(r))

(***************************************************************************)
(* Any two of the requests in flight together through one pipeline: their  *)
(* steps interleave in every order.  The handler fails with one cause,     *)
(* with the default status or with 418.                                    *)
(***************************************************************************)
ConcOutcomes ==
    {[ok |-> TRUE],
     [ok |-> FALSE, cause |-> "disk full", status |-> None],
     [ok |-> FALSE, cause |-> "disk full", status |-> Some(StatusImATeapot)]}

ConcInit ==
    /\ factories \in UNION {[1..n -> Kinds] : n \in 0..ConcChain}
    /\ live \in {{r1, r2} : r1, r2 \in Requests} \ {{r} : r \in Requests}
    /\ ReqInit
    /\ ErrInit

ConcCallHandler(r) ==
    /\ CallHandler(r)
    /\ result'[r] \in {MyHandler(st[r], o) : o \in ConcOutcomes}

ConcStep(r) ==
    \/ Start(r)
    \/ Build(r)
    \/ CallLink(r)
    \/ Resolve(r)
    \/ ConcCallHandler(r)
    \/ Unwind(r)
    \/ Boundary(r)

ConcNext == \E r \in Requests : ConcStep(r)

ConcSpec == ConcInit /\ [][ConcNext]_vars

(***************************************************************************)
(* One request through a pipeline that holds wrapping middleware.          *)
(***************************************************************************)
PostInit ==
    /\ factories \in {f \in UNION {[1..n -> AllKinds] : n \in 1..PostChain} :
                          \E i \in 1..Len(f) : f[i] = "Wrapping"}
    /\ live \in {{r} : r \in Requests}
    /\ ReqInit
    /\ ErrInit

PostNext == \E r \in Requests : ConcStep(r)

PostSpec == PostInit /\ [][PostNext]_vars

(***************************************************************************)
(* The State container on its own: any sequence of puts on a new State.    *)
(***************************************************************************)
PutValues == {StateDataValue, StateDataValue + 1}

StateInit ==
    /\ factories = <<>>
    /\ live \in {{r} : r \in Requests}
    /\ ReqInit
    /\ ErrInit

StatePut(r, t, v) ==
    /\ r \in live
    /\ pc[r] = "idle"
    /\ Len(puts[r]) < MaxPuts
    /\ st' = [st EXCEPT ![r] = Put(st[r], t, v)]
    /\ puts' = [puts EXCEPT ![r] = Append(puts[r], <<t, v>>)]
    /\ UNCHANGED <<factories, live, pc, bi, chain, stack, executed, terminator,
                   raised, result, responses, trace, logVars, errVars>>

StateNext == \E r \in Requests, t \in Types, v \in PutValues : StatePut(r, t, v)

StateSpec == StateInit /\ [][StateNext]_vars

(***************************************************************************)
(* A HandlerError on its own: created from a cause, given any statuses,    *)
(* converted into a response against a State.                              *)
(***************************************************************************)
HandlerErrorInit ==
    /\ factories = <<>>
    /\ live = {}
    /\ ReqInit
    /\ herr = None
    /\ hcause = None
    /\ hstatuses = <<>>
    /\ hstate \in {InitialState(r, m) : r \in Requests, m \in Methods}
    /\ hresp = None
    /\ htrace = <<>>

\* cause.into_handler_error()
ErrFrom(c) ==
    /\ ~herr.some
    /\ herr' = Some(IntoHandlerError(c))
    /\ hcause' = Some(c)
    /\ UNCHANGED <<factories, live, reqVars, hstatuses, hstate, hresp, htrace>>

\* handler_error.with_status(s)
ErrWithStatus(s) ==
    /\ herr.some
    /\ ~hresp.some
    /\ Len(hstatuses) < MaxOverrides
    /\ herr' = Some(WithStatus(herr.v, s))
    /\ hstatuses' = Append(hstatuses, s)
    /\ UNCHANGED <<factories, live, reqVars, hcause, hstate, hresp, htrace>>

\* handler_error.into_response(&state)
ErrIntoResponse ==
    /\ herr.some
    /\ ~hresp.some
    /\ hresp' = Some(IntoResponse(herr.v, hstate))
    /\ htrace' = htrace \o IntoResponseTrace(herr.v, hstate)
    /\ UNCHANGED <<factories, live, reqVars, herr, hcause, hstatuses, hstate>>

HandlerErrorNext ==
    \/ \E c \in AllCauses : ErrFrom(c)
    \/ \E s \in StatusCodes : ErrWithStatus(s)
    \/ ErrIntoResponse

HandlerErrorSpec == HandlerErrorInit /\ [][HandlerErrorNext]_vars

(***************************************************************************)
(* Properties.                                                             *)
(***************************************************************************)
NumMiddleware == Len(factories)
Middlewares == 1..NumMiddleware
Last(q) == q[Len(q)]
Ran(q) == {q[k] : k \in 1..Len(q)}
\* <<1, 2, ..., n>>
UpTo(n) == [k \in 1..n |-> k]

\* chain assembly stopped at a factory whose new_middleware failed
BuildFailed(r) == pc[r] \in {"boundary", "done"} /\ bi[r] > 0

\* C1 (short-circuit): once a middleware Mi is the first link to produce the
\* outcome itself (a response or a HandlerError, its continuation not
\* invoked), the links that ran are exactly M1..Mi: no M(i+1)..Mn and no
\* terminal handler ever runs for that request.
C1_ShortCircuit ==
    \A r \in Requests :
        terminator[r] \in Middlewares =>
            /\ executed[r] = UpTo(terminator[r])
            /\ HandlerIdx \notin Ran(executed[r])
            /\ chain[r] = <<>>
            /\ pc[r] \in {"unwind", "boundary", "done"}

\* a request ended by a middleware that has links downstream of it
C1_Witness ==
    \E r \in Requests :
        /\ pc[r] = "done"
        /\ terminator[r] \in Middlewares
        /\ terminator[r] < NumMiddleware
        /\ terminator[r] > 1

\* every middleware of the request's chain invokes its continuation: Noop
\* and StateData always do, Conditional does for a Get, Async does once
\* its action resolved
DelegatingChain(r) ==
    /\ \A i \in Middlewares :
          factories[i] = "Conditional" => TryBorrow(st[r], TMethod) = Some("Get")
    /\ raised[r] # ErrResult(IntoHandlerError(AsyncFailure))

\* C2 (full delegation): the links start in list order, each at most once,
\* and when every middleware invoked its continuation the links that ran are
\* exactly M1, ..., Mn and then the terminal handler, once and last.
C2_FullDelegation ==
    \A r \in Requests :
        /\ executed[r] = UpTo(Len(executed[r]))
        /\ Len(executed[r]) <= HandlerIdx
        /\ (pc[r] \in {"boundary", "done"} /\ ~BuildFailed(r)
              /\ (terminator[r] \notin Middlewares \/ DelegatingChain(r)))
             => /\ executed[r] = UpTo(HandlerIdx)
                /\ terminator[r] = HandlerIdx

\* a chain of MaxChain middleware that all delegated, handler reached
C2_Witness ==
    \E r \in Requests :
        /\ pc[r] = "done"
        /\ NumMiddleware >= 2
        /\ terminator[r] = HandlerIdx
        /\ executed[r] = UpTo(HandlerIdx)
        /\ "Async" \in Ran(factories)

RequestOutcome(r) ==
    /\ Len(responses[r]) <= 1
    /\ pc[r] # "done" => responses[r] = <<>>
    /\ pc[r] = "done" =>
          /\ Len(responses[r]) = 1
          /\ result[r].kind \in {"ok", "err"}

\* C3 (exactly one outcome): a request handed to process() never has more
\* than one response, has none before it is done, and is eventually done
\* with exactly one response, made from (State, Response) or from a
\* HandlerError, whichever link ends it and whether or not links suspend.
C3_ExactlyOneOutcome ==
    /\ [](\A r \in Requests : RequestOutcome(r))
    /\ \A r \in Requests :
          (pc[r] # "idle") ~> (pc[r] = "done" /\ Len(responses[r]) = 1)

\* a request that suspended in an Async middleware and got its one response
C3_Witness ==
    \E r \in Requests :
        /\ pc[r] = "done"
        /\ Len(responses[r]) = 1
        /\ \E k \in Ran(executed[r]) \cap Middlewares : factories[k] = "Async"

\* C4 (construction failure): when new_middleware of a factory fails, at any
\* position, the request's outcome is a HandlerError with status 500 whose
\* cause is the construction failure, its response is that error's, and no
\* middleware call and no handler ran, also not those of the factories that
\* were instantiated before the failing one.
C4_ConstructionFailure ==
    \A r \in Requests :
        BuildFailed(r) =>
            /\ executed[r] = <<>>
            /\ terminator[r] = 0
            /\ result[r].kind = "err"
            /\ result[r].error.cause = ConstructionFailure
            /\ result[r].error.status_code = StatusInternalServerError
            /\ pc[r] = "done" =>
                  responses[r] =
                      << [status |-> StatusInternalServerError, body |-> EmptyBody] >>

\* a failure at the first factory, after the others were instantiated
C4_Witness ==
    \E r \in Requests :
        /\ pc[r] = "done"
        /\ NumMiddleware >= 2
        /\ bi[r] = 1

\* C5 (failure is not swallowed): a HandlerError of status s produced by a
\* link (or by chain assembly) is the outcome at every step of the way back,
\* unmodified, and the request's one response has status s and no body; it
\* is the error's response, never the handler's success response.
C5_FailureNotSwallowed ==
    \A r \in Requests :
        raised[r].kind = "err" =>
            /\ result[r] = raised[r]
            /\ pc[r] = "done" =>
                  /\ responses[r] =
                        << [status |-> raised[r].error.status_code,
                            body |-> EmptyBody] >>
                  /\ Len(trace[r]) = 1

\* the handler failed with an overridden status below two middleware
C5_Witness ==
    \E r \in Requests :
        /\ pc[r] = "done"
        /\ raised[r].kind = "err"
        /\ raised[r].error.status_code = StatusImATeapot
        /\ terminator[r] = HandlerIdx
        /\ NumMiddleware >= 2

\* C6 (default status): a HandlerError made by into_handler_error, no
\* with_status applied, has status 500 whatever the cause, and its response
\* has status 500 and an empty body.
C6_DefaultStatus ==
    (herr.some /\ hstatuses = <<>>) =>
        /\ herr.v.status_code = 500
        /\ herr.v.cause = hcause.v
        /\ hresp.some => hresp.v = [status |-> 500, body |-> ""]

C6_Witness ==
    /\ herr.some
    /\ hstatuses = <<>>
    /\ hcause = Some("disk full")
    /\ hresp.some

\* C7 (with_status changes only the status): after with_status(s) the error
\* has status s and the cause it was created with; its response has status s
\* and an empty body, and the trace line reports s.
C7_WithStatusOnlyStatus ==
    (herr.some /\ hstatuses # <<>>) =>
        /\ herr.v.status_code = Last(hstatuses)
        /\ herr.v.cause = hcause.v
        /\ DOMAIN herr.v = {"status_code", "cause"}
        /\ hresp.some =>
              /\ hresp.v = [status |-> Last(hstatuses), body |-> ""]
              /\ Len(htrace) = 1
              /\ htrace[1].status = Last(hstatuses)

\* an error given 418 and converted
C7_Witness ==
    /\ herr.some
    /\ hstatuses = <<StatusImATeapot>>
    /\ hresp.some
    /\ hresp.v.status # StatusInternalServerError

\* C8 (diagnostic trace): into_response writes exactly one trace line (none
\* is written before), holding the request id of the state, the numeric
\* status, and the canonical reason of the status when the registry has one,
\* "(unregistered)" exactly when it has none.
C8_DiagnosticTrace ==
    /\ ~hresp.some => htrace = <<>>
    /\ hresp.some =>
          /\ Len(htrace) = 1
          /\ htrace[1].request_id = TryBorrow(hstate, TRequestId).v
          /\ htrace[1].status = herr.v.status_code
          /\ (htrace[1].status = 500 => htrace[1].reason = "Internal Server Error")
          /\ (htrace[1].status = 418 => htrace[1].reason = "I'm a teapot")
          /\ (htrace[1].status = 404 => htrace[1].reason = "Not Found")
          /\ (htrace[1].reason = "(unregistered)" <=>
                  htrace[1].status \notin {200, 404, 405, 418, 500})

\* an error with an unregistered status converted, for the last request id
C8_Witness ==
    /\ hresp.some
    /\ htrace[1].status = StatusUnregistered
    /\ htrace[1].reason = "(unregistered)"
    /\ htrace[1].request_id = RequestIdOf(NReq)

\* C9 (State round-trip): after any sequence of puts, retrieving type t gives
\* the value of the most recent put of type t (a later put of t replaced the
\* earlier one, puts of other types did not touch it), and retrieving a type
\* never put gives the absent result.
C9_StateRoundTrip ==
    \A r \in Requests : \A t \in Types :
        /\ TryBorrow(st[r], t) = LastInserted(puts[r], t)
        /\ (\A k \in 1..Len(puts[r]) : puts[r][k][1] # t) =>
              TryBorrow(st[r], t) = None

\* a type put twice with different values, another type put after it, a
\* third never put
C9_Witness ==
    \E r \in Requests : \E t, u, w \in Types :
        /\ Len(puts[r]) = 3
        /\ puts[r][1][1] = t /\ puts[r][2][1] = t /\ puts[r][3][1] = u
        /\ u # t
        /\ puts[r][1][2] # puts[r][2][2]
        /\ ~TryBorrow(st[r], w).some

\* C10 (same state downstream): the state a link receives holds every entry
\* put so far, by the transport and by the middleware upstream, with the
\* value of the latest put of its type; nothing else, and nothing lost.
C10_SameStateDownstream ==
    \A r \in Requests :
        pc[r] # "idle" =>
            /\ \A t \in Types : TryBorrow(st[r], t) = LastInserted(puts[r], t)
            /\ TryBorrow(st[r], TRequestId) = Some(RequestIdOf(r))
            /\ (\E i \in Ran(executed[r]) \cap Middlewares :
                    factories[i] = "StateData")
                 => TryBorrow(st[r], TMiddlewareStateData) = Some(StateDataValue)

\* the handler ran below a StateData middleware and a later middleware
C10_Witness ==
    \E r \in Requests :
        /\ NumMiddleware = 3
        /\ factories[1] = "StateData"
        /\ HandlerIdx \in Ran(executed[r])
        /\ TryBorrow(st[r], TMiddlewareStateData) = Some(StateDataValue)

\* C12 (no leak to the client): the response of into_response is made of the
\* status of the error and nothing else of it: it has that status and an
\* empty body, and an error with the same status and any other cause,
\* converted against the same state, gives the identical response.
C12_NoLeakToClient ==
    hresp.some =>
        /\ DOMAIN hresp.v = {"status", "body"}
        /\ hresp.v.status = herr.v.status_code
        /\ hresp.v.body = ""
        /\ \A c \in AllCauses :
              IntoResponse([status_code |-> herr.v.status_code, cause |-> c],
                           hstate) = hresp.v

\* an error with a cause and an overridden status, converted
C12_Witness ==
    /\ hresp.some
    /\ hcause = Some("config.toml not found")
    /\ hstatuses = <<StatusNotFound>>
    /\ hresp.v.status = StatusNotFound

\* C19 (display does not leak the cause): Display and description() of every
\* HandlerError are "handler failed to process request" whatever the cause
\* and the status; Debug is that text, then the cause's Debug form in
\* parentheses; cause() is the cause given at creation, never none, also
\* after with_status.
C19_DisplayFixed ==
    herr.some =>
        /\ DisplayFmt(herr.v) = "handler failed to process request"
        /\ description(herr.v) = "handler failed to process request"
        /\ DebugFmt(herr.v) =
              "handler failed to process request (" \o DebugOfCause(hcause.v) \o ")"
        /\ ErrorCause(herr.v).some
        /\ ErrorCause(herr.v).v = hcause.v

\* an error created from "disk full" and given two statuses
C19_Witness ==
    /\ herr.some
    /\ hcause = Some("disk full")
    /\ Len(hstatuses) = 2
    /\ DebugFmt(herr.v) = "handler failed to process request (Error(disk full))"

\* C20 (last override wins): after with_status(s1), ..., with_status(sk),
\* k >= 1, the error is the one with_status(sk) alone gives from the error
\* as created: status sk, the original cause; its response has status sk;
\* and applying with_status(s) once more to an error of status s changes
\* nothing.
C20_LastOverrideWins ==
    (herr.some /\ hstatuses # <<>>) =>
        /\ herr.v = WithStatus(IntoHandlerError(hcause.v), Last(hstatuses))
        /\ herr.v = [status_code |-> Last(hstatuses), cause |-> hcause.v]
        /\ WithStatus(herr.v, Last(hstatuses)) = herr.v
        /\ \A s \in StatusCodes :
              WithStatus(WithStatus(herr.v, s), s) = WithStatus(herr.v, s)
        /\ hresp.some => hresp.v.status = Last(hstatuses)

\* two different overrides, the second not the default, then converted
C20_Witness ==
    /\ herr.some
    /\ hstatuses = <<StatusImATeapot, StatusNotFound>>
    /\ hresp.some


\* no entry occurs twice in q
NoDuplicates(q) == \A j, k \in 1..Len(q) : j # k => q[j] # q[k]

\* the ids of the instances in a sequence of instances
InstanceIds(q) == {q[k].id : k \in 1..Len(q)}

\* C11 (cross-request isolation): with requests in flight together, each
\* request's container holds exactly what that request's own steps put in
\* it, its request id is its own and differs from every other request's,
\* its trace lines carry its own id, and the middleware instances built and
\* called for it are disjoint from those of every other request.
C11_CrossRequestIsolation ==
    \A r1 \in Requests :
        /\ \A t \in Types : TryBorrow(st[r1], t) = LastInserted(puts[r1], t)
        /\ pc[r1] # "idle" => TryBorrow(st[r1], TRequestId) = Some(<<"request", r1>>)
        /\ \A k \in 1..Len(trace[r1]) : trace[r1][k].request_id = <<"request", r1>>
        /\ \A r2 \in Requests \ {r1} :
              /\ (pc[r1] # "idle" /\ pc[r2] # "idle")
                    => TryBorrow(st[r1], TRequestId) # TryBorrow(st[r2], TRequestId)
              /\ InstanceIds(made[r1]) \cap InstanceIds(made[r2]) = {}
              /\ Ran(used[r1]) \cap InstanceIds(made[r2]) = {}

\* two requests went through the same pipeline together; the StateData
\* middleware ran for one and put its value, the other was answered by the
\* Conditional middleware before it and its container has no such value
C11_Witness ==
    \E r1, r2 \in Requests :
        /\ r1 # r2
        /\ pc[r1] = "done"
        /\ pc[r2] = "done"
        /\ factories = <<"Conditional", "StateData">>
        /\ TryBorrow(st[r1], TMiddlewareStateData) = Some(StateDataValue)
        /\ TryBorrow(st[r2], TMiddlewareStateData) = None
        /\ Len(used[r1]) = 2
        /\ Len(used[r2]) = 1

\* C13 (request id stable): from the moment the request is received its
\* State holds the one request id the transport gave it; the id is put
\* once, no link of the chain changes it, and every diagnostic line of the
\* request carries it.
C13_RequestIdStable ==
    \A r \in Requests :
        /\ pc[r] # "idle" =>
              /\ TryBorrow(st[r], TRequestId) = Some(<<"request", r>>)
              /\ Cardinality({k \in 1..Len(puts[r]) : puts[r][k][1] = TRequestId}) = 1
        /\ \A k \in 1..Len(trace[r]) : trace[r][k].request_id = <<"request", r>>

\* a failed request whose State was written by a middleware on the way and
\* whose conversion logged a line with the request's id
C13_Witness ==
    \E r \in Requests :
        /\ pc[r] = "done"
        /\ Len(puts[r]) > 2
        /\ Len(trace[r]) = 1
        /\ trace[r][1].request_id = RequestIdOf(r)
        /\ request_id(st[r]) = RequestIdOf(r)

\* C14 (exclusive ownership): a started request's State has exactly one
\* holder at every moment; while the chain descends the holder is the link
\* about to run (or the suspended one) and no middleware that called
\* chain(state) holds it; once the outcome is back at the caller of
\* process() no link of the chain holds it.
C14_ExclusiveOwnership ==
    \A r \in Requests :
        /\ pc[r] = "idle" => holders[r] = {}
        /\ pc[r] # "idle" => Cardinality(holders[r]) = 1
        /\ pc[r] \in {"run", "suspended"} =>
              /\ holders[r] = {NextLink(chain[r])}
              /\ \A k \in 1..Len(stack[r]) : stack[r][k].idx \notin holders[r]
        /\ pc[r] = "unwind" => holders[r] = {Last(stack[r]).idx}
        /\ (pc[r] \in {"boundary", "done"} /\ ~BuildFailed(r)) => holders[r] = {0}

\* the handler holds the State after MaxChain middleware passed it on
C14_Witness ==
    \E r \in Requests :
        /\ pc[r] = "unwind"
        /\ Len(stack[r]) = MaxChain
        /\ terminator[r] = HandlerIdx
        /\ "Noop" \in Ran(factories)

\* the resolutions recorded for link i of request r
Resolutions(r, i) == {p[2] : p \in {q \in resolved[r] : q[1] = i}}

\* C15 (asynchronous middleware): a link downstream of an Async middleware
\* runs only after that middleware's action resolved successfully; while
\* the action is pending nothing downstream has run; if the action fails
\* the request's outcome is that failure as a HandlerError and neither a
\* downstream middleware nor the handler runs.
C15_AsyncOrdering ==
    \A r \in Requests :
        /\ \A i \in Middlewares :
              factories[i] = "Async" =>
                  /\ (\E k \in Ran(executed[r]) : k > i) => Resolutions(r, i) = {TRUE}
                  /\ FALSE \in Resolutions(r, i) =>
                        /\ executed[r] = UpTo(i)
                        /\ terminator[r] = i
                        /\ raised[r] = ErrResult([status_code |-> StatusInternalServerError,
                                                  cause |-> AsyncFailure])
                        /\ result[r] = raised[r]
        /\ pc[r] = "suspended" =>
              /\ factories[Last(executed[r])] = "Async"
              /\ Head(chain[r]).idx = Last(executed[r])
              /\ Resolutions(r, Last(executed[r])) = {}
        /\ \A p \in resolved[r] : factories[p[1]] = "Async"

\* one Async middleware resolved and the chain went on to a second one,
\* whose action failed with a link still downstream of it
C15_Witness ==
    \E r \in Requests :
        /\ pc[r] = "done"
        /\ NumMiddleware = MaxChain
        /\ resolved[r] = {<<1, TRUE>>, <<2, FALSE>>}
        /\ executed[r] = <<1, 2>>
        /\ responses[r][1].status = StatusInternalServerError

\* the Wrapping links of the request's chain upstream of link n
WrappingBelow(n) == {k \in Middlewares : factories[k] = "Wrapping" /\ k < n}

\* C16 (reverse unwinding): the post steps of the middleware that attached
\* one to their continuation run after the terminator produced the outcome
\* and in the reverse of pre-processing order, innermost first; links
\* downstream of a short-circuiting terminator run no post step.
C16_ReverseUnwinding ==
    \A r \in Requests :
        /\ \A j, k \in 1..Len(posts[r]) : j < k => posts[r][j] > posts[r][k]
        /\ Ran(posts[r]) \subseteq WrappingBelow(HandlerIdx) \cap Ran(executed[r])
        /\ posts[r] # <<>> =>
              /\ terminator[r] # 0
              /\ Ran(posts[r]) \subseteq WrappingBelow(terminator[r])
        /\ pc[r] \in {"idle", "build", "run", "suspended"} => posts[r] = <<>>
        /\ (pc[r] \in {"boundary", "done"} /\ ~BuildFailed(r))
              => Ran(posts[r]) = WrappingBelow(terminator[r])

\* two Wrapping middleware around a Conditional one that answered itself:
\* both post steps ran, the inner one first
C16_Witness ==
    \E r \in Requests :
        /\ pc[r] = "done"
        /\ factories = <<"Wrapping", "Wrapping", "Conditional">>
        /\ terminator[r] = 3
        /\ posts[r] = <<2, 1>>

\* C17 (fresh instances per request): chain assembly asks each factory for
\* an instance once per request, last factory first, and all of them before
\* any middleware runs; every call consumes an instance the request's own
\* assembly made from the factory at that position, no instance is called
\* twice, and no instance belongs to two requests.
C17_FreshInstances ==
    \A r \in Requests :
        /\ Len(made[r]) <= NumMiddleware
        /\ \A k \in 1..Len(made[r]) : made[r][k].idx = NumMiddleware - k + 1
        /\ NoDuplicates([k \in 1..Len(made[r]) |-> made[r][k].id])
        /\ executed[r] # <<>> => Len(made[r]) = NumMiddleware
        /\ NoDuplicates(used[r])
        /\ \A k \in 1..Len(used[r]) :
              \E j \in 1..Len(made[r]) :
                  /\ made[r][j].id = used[r][k]
                  /\ made[r][j].idx = executed[r][k]
        /\ \A r2 \in Requests \ {r} : InstanceIds(made[r]) \cap InstanceIds(made[r2]) = {}

\* two requests each went through a pipeline of ConcChain factories: each
\* had its own ConcChain instances made and called
C17_Witness ==
    \E r1, r2 \in Requests :
        /\ r1 # r2
        /\ pc[r1] = "done"
        /\ pc[r2] = "done"
        /\ NumMiddleware = ConcChain
        /\ Len(used[r1]) = ConcChain
        /\ Len(used[r2]) = ConcChain
        /\ Len(made[r1]) = ConcChain

\* a link ran for request r and the request already has a failure as outcome
FailedAt(r) == raised[r] # NoResult /\ raised[r].kind = "err"

\* C18 (at most once, no retry): no link of a request's chain is called
\* twice and no middleware is waiting on its continuation twice; once a
\* failure is the request's outcome no link is called again for it and the
\* failure stays what it was.
C18_AtMostOnce ==
    /\ [](\A r \in Requests :
            /\ NoDuplicates(executed[r])
            /\ NoDuplicates([k \in 1..Len(stack[r]) |-> stack[r][k].idx])
            /\ Len(responses[r]) <= 1)
    /\ [][\A r \in Requests :
            FailedAt(r) => /\ executed'[r] = executed[r]
                           /\ used'[r] = used[r]
                           /\ raised'[r] = raised[r]]_vars

\* an Async middleware's action failed with links downstream of it and the
\* request ended with each upstream link called once
C18_Witness ==
    \E r \in Requests :
        /\ pc[r] = "done"
        /\ FailedAt(r)
        /\ terminator[r] \in Middlewares
        /\ terminator[r] < NumMiddleware
        /\ factories[terminator[r]] = "Async"
        /\ executed[r] = UpTo(terminator[r])

============================================================================
